---- MODULE Spec2Model ----
(***************************************************************************)
(* A model of babel (src/main.rs, src/selector.rs): an HTTP service that   *)
(* fetches a configured HTML page, extracts entries with CSS selectors and *)
(* answers with an Atom feed.                                              *)
(*                                                                         *)
(* Conventions.  A Rust String is a sequence of one-character strings.     *)
(* Option<T> is a sequence of length 0 (None) or 1 (Some).  Result<T, E>   *)
(* is a record [ok, val, err].  An HTML tree is the sequence of its nodes  *)
(* in document order; each node names its parent by index (0 = the         *)
(* document root).                                                         *)
(***************************************************************************)
EXTENDS Integers, Sequences, FiniteSets, TLC

VARIABLES
    mainPc,     \* where main() is: "start", "bind", "serving", "failed"
    CONFIG,     \* static mut CONFIG: None (null pointer) or Some(map)
    accepted,   \* history: has index() been entered for any request yet
    req,        \* per request slot: the position and locals of its index() future
    fn,         \* function harness: which function is applied
    inp,        \* function harness: its arguments
    out         \* function harness: None before the call, Some(result) after

vars == <<mainPc, CONFIG, accepted, req, fn, inp, out>>

(***************************************************************************)
(* Option and Result                                                       *)
(***************************************************************************)
None == <<>>
Some(x) == <<x>>
IsSome(o) == Len(o) = 1
Unwrap(o) == o[1]

NoVal == <<>>
Ok(v) == [ok |-> TRUE, val |-> v, err |-> NoVal]
Err(e) == [ok |-> FALSE, val |-> NoVal, err |-> e]
\* Result<T, E> to Result<Option<T>, E>: Option<Result>::transpose on a Some
MapSome(r) == IF r.ok THEN Ok(Some(r.val)) ELSE r

(***************************************************************************)
(* Bounds                                                                  *)
(***************************************************************************)
MaxTextLen == 4     \* selector texts given to the selector grammar
MaxLinkLen == 4     \* raw link values given to link normalisation
MaxSeedLen == 2     \* titles and hrefs given to identifier derivation
SelNodes == 3       \* nodes beside the fragment root, for select
EntryNodes == 3     \* nodes beside the fragment root, for fill_entry
DocNodes == 3       \* nodes of a fetched document, for feed assembly
PageNodes == 2      \* nodes of a page the running server fetches

RECURSIVE Strings(_, _)
\* All strings over alphabet `chars` of length at most n.
Strings(chars, n) ==
    IF n = 0 THEN {<<>>}
    ELSE LET shorter == Strings(chars, n - 1)
         IN shorter \cup {Append(s, c) : s \in {t \in shorter : Len(t) = n - 1}, c \in chars}

StartsWith(s, p) == Len(s) >= Len(p) /\ SubSeq(s, 1, Len(p)) = p

(***************************************************************************)
(* src/selector.rs                                                         *)
(***************************************************************************)
IdentChars == {"a", "b", "d", "h", "i", "l", "t", "u"}

\* str::find: the index of the first occurrence of character d in s, 0 if none
Find(s, d) ==
    IF \A k \in 1..Len(s) : s[k] # d THEN 0
    ELSE CHOOSE k \in 1..Len(s) : s[k] = d /\ \A j \in 1..(k - 1) : s[j] # d

RECURSIVE SplitOn(_, _)
SplitAt(s, d, k) ==
    IF k = 0 THEN <<s>>
    ELSE <<SubSeq(s, 1, k - 1)>> \o SplitOn(SubSeq(s, k + 1, Len(s)), d)

\* str::split: the pieces of s between the occurrences of character d
SplitOn(s, d) == SplitAt(s, d, Find(s, d))

WellFormed(v, parts) ==
    /\ v # <<>>
    /\ \A k \in 1..Len(v) : v[k] \in IdentChars \cup {"."}
    /\ Len(parts) = 1 => parts[1] # <<>>
    /\ \A k \in 2..Len(parts) : parts[k] # <<>>

Compile(v, parts) ==
    IF WellFormed(v, parts)
    THEN Ok([tag |-> parts[1], classes |-> {parts[k] : k \in 2..Len(parts)}])
    ELSE Err([kind |-> "custom", text |-> v])

\* scraper's Selector::parse on the fragment of CSS the model covers: a
\* compound selector, an optional type name followed by class selectors
\* (a, .a, a.b.a).  Anything else over the model's alphabet is a syntax error.
RawSelector_parse(v) == Compile(v, SplitOn(v, "."))

\* SelectorVisitor::visit_str
visit_str_Selector(v) ==
    IF Len(v) = 0 THEN Err([kind |-> "invalid length", text |-> v])
    ELSE RawSelector_parse(v)

Splitn2At(v, k) ==
    IF k = 0 THEN <<v>> ELSE <<SubSeq(v, 1, k - 1), SubSeq(v, k + 1, Len(v))>>

\* a plausible slip: split in place of splitn(2, ..)
splitn2_Split(v) == SplitOn(v, "|")

\* v.splitn(2, '|'): at most two pieces, cut at the first '|'
splitn2(v) == Splitn2At(v, Find(v, "|"))

\* lines 40-41: iter.next().map(ToOwned::to_owned), and the descriptor
WithAttr(selector, iter) ==
    IF ~selector.ok THEN selector
    ELSE Ok([selector |-> selector.val,
             attr |-> IF Len(iter) >= 2 THEN Some(iter[2]) ELSE None])

\* lines 36-39: the first piece goes through SelectorVisitor
FromPieces(iter) == WithAttr(visit_str_Selector(iter[1]), iter)

\* SelectorExVisitor::visit_str
visit_str_SelectorEx(v) == FromPieces(splitn2(v))

(***************************************************************************)
(* HTML trees (scraper's Html / ElementRef)                                *)
(***************************************************************************)
Elem(tag, classes, attrs) ==
    [kind |-> "elem", parent |-> 0, tag |-> tag, classes |-> classes,
     attrs |-> attrs, text |-> <<>>]
Text(t) ==
    [kind |-> "text", parent |-> 0, tag |-> <<>>, classes |-> {},
     attrs |-> {}, text |-> t]

RECURSIVE IsDescendant(_, _, _)
\* node j lies strictly below node a (a = 0: the document root)
IsDescendant(doc, a, j) ==
    /\ j > a
    /\ \/ doc[j].parent = a
       \/ doc[j].parent > a /\ IsDescendant(doc, a, doc[j].parent)

\* where the next node in document order may hang: under the last node, or
\* under one of its ancestors at or below `top`
ValidParents(doc, top) ==
    {p \in top..Len(doc) :
        \/ p = 0
        \/ doc[p].kind = "elem" /\ (p = Len(doc) \/ IsDescendant(doc, p, Len(doc)))}

RECURSIVE Grow(_, _, _, _)
\* every tree got from a tree of `seeds` (all of one length) by appending at
\* most n nodes drawn from `opts`, each hung at or below `top`
Grow(seeds, opts, top, n) ==
    IF n = 0 THEN seeds
    ELSE LET smaller == Grow(seeds, opts, top, n - 1)
             base == Len(CHOOSE d \in seeds : TRUE)
             longest == {d \in smaller : Len(d) = base + n - 1}
         IN smaller \cup
            UNION {{Append(d, [o EXCEPT !.parent = p]) :
                       o \in opts, p \in ValidParents(d, top)} : d \in longest}

\* the selector matches the element (selectors::matching on a compound selector)
Matches(node, sel) ==
    /\ node.kind = "elem"
    /\ sel.tag = <<>> \/ node.tag = sel.tag
    /\ sel.classes \subseteq node.classes

\* ElementRef::select / Html::select: the matching elements below `scope`,
\* an iterator in document order
Select(doc, scope, sel) ==
    SelectSeq([k \in 1..Len(doc) |-> k],
              LAMBDA k : IsDescendant(doc, scope, k) /\ Matches(doc[k], sel))

RECURSIVE TextFrom(_, _, _)
TextFrom(doc, e, k) ==
    IF k > Len(doc) THEN <<>>
    ELSE (IF doc[k].kind = "text" /\ IsDescendant(doc, e, k) THEN doc[k].text ELSE <<>>)
         \o TextFrom(doc, e, k + 1)

\* ElementRef::text().collect::<String>(): the text nodes below e, concatenated
ElementText(doc, e) == TextFrom(doc, e, 1)

\* Element::attr
ElementAttr(node, name) ==
    IF \E a \in node.attrs : a[1] = name
    THEN Some((CHOOSE a \in node.attrs : a[1] = name)[2])
    ELSE None

(***************************************************************************)
(* src/main.rs: select                                                     *)
(***************************************************************************)
\* actix_web::error::ErrorInternalServerError(format!("selector: {:?}", selector))
SelectorError(selector) == [code |-> 500, msg |-> "selector", selector |-> Some(selector)]

\* lines 84-93: the attribute's value, or the text, of the matched element
ValueOf(doc, element, selector) ==
    IF IsSome(selector.attr)
    THEN IF IsSome(ElementAttr(doc[element], Unwrap(selector.attr)))
         THEN Ok(Unwrap(ElementAttr(doc[element], Unwrap(selector.attr))))
         ELSE Err(SelectorError(selector))
    ELSE Ok(ElementText(doc, element))

\* a plausible slip: the last match instead of the first
FirstOf_Last(doc, it, selector) ==
    IF it = <<>> THEN Err(SelectorError(selector))
    ELSE ValueOf(doc, it[Len(it)], selector)

\* lines 78-83: .next() of the iterator, or the error when it is empty
FirstOf(doc, it, selector) ==
    IF it = <<>> THEN Err(SelectorError(selector))
    ELSE ValueOf(doc, Head(it), selector)

select(doc, entry_element, selector) ==
    FirstOf(doc, Select(doc, entry_element, selector.selector), selector)

(***************************************************************************)
(* src/main.rs: fill_entry                                                 *)
(***************************************************************************)
Http == <<"h", "t", "t", "p">>

\* a plausible slip: every value that is not absolute gets the '/' separator
NormalizeLink_AlwaysSlash(base, l) ==
    IF ~StartsWith(l, Http) THEN base \o <<"/">> \o l ELSE l

\* the closure of lines 106-115: the href of the entry's link
NormalizeLink(base, l) ==
    IF l # <<>> /\ l[1] \in {"/", "."} THEN base \o l
    ELSE IF ~StartsWith(l, Http) THEN base \o <<"/">> \o l
    ELSE l

\* atom::Link::default() with its href set
Link(href) == [href |-> href, rel |-> "alternate"]

RECURSIVE DebugChars(_)
\* <str as Debug>::fmt, without the surrounding quotes: '"' and '\' are escaped
DebugChars(s) ==
    IF s = <<>> THEN <<>>
    ELSE (IF Head(s) \in {"\"", "\\"} THEN <<"\\", Head(s)>> ELSE <<Head(s)>>)
         \o DebugChars(Tail(s))

DebugStr(s) == <<"\"">> \o DebugChars(s) \o <<"\"">>

\* #[derive(Debug)] on atom::Link
DebugLink(link) ==
    <<"L", "i", "n", "k", " ", "{", " ", "h", "r", "e", "f", ":", " ">>
    \o DebugStr(link.href) \o
    <<",", " ", "r", "e", "l", ":", " ", "\"", "a", "l", "t", "e", "r", "n", "a", "t",
      "e", "\"", ",", " ", "h", "r", "e", "f", "l", "a", "n", "g", ":", " ", "N", "o",
      "n", "e", ",", " ", "m", "i", "m", "e", "_", "t", "y", "p", "e", ":", " ", "N", "o",
      "n", "e", ",", " ", "t", "i", "t", "l", "e", ":", " ", "N", "o", "n", "e", ",", " ",
      "l", "e", "n", "g", "t", "h", ":", " ", "N", "o", "n", "e", " ", "}">>

RECURSIVE DebugItems(_)
DebugItems(links) ==
    IF links = <<>> THEN <<>>
    ELSE DebugLink(Head(links))
         \o (IF Len(links) > 1 THEN <<",", " ">> ELSE <<>>)
         \o DebugItems(Tail(links))

\* <[Link] as Debug>::fmt
DebugLinks(links) == <<"[">> \o DebugItems(links) \o <<"]">>

RECURSIVE DisplayItems(_)
DisplayItems(links) ==
    IF links = <<>> THEN <<>> ELSE Head(links).href \o DisplayItems(Tail(links))

\* a plausible slip: the hrefs appended bare, "{}{}" in place of "{}{:?}"
EntrySeed_Bare(title, links) == title \o DisplayItems(links)

\* format!("{}{:?}", entry.title(), entry.links())
EntrySeed(title, links) == title \o DebugLinks(links)

\* Uuid::new_v5(&uuid::NAMESPACE_URL, name).urn().to_string(): SHA-1 is taken to
\* be free of collisions, so the identifier stands for the name it hashes
new_v5_urn(name) == [urn |-> "urn:uuid", namespace |-> "NAMESPACE_URL", name |-> name]

EntryId(title, links) == new_v5_urn(EntrySeed(title, links))

\* feed_cfg.<field>.as_ref().map(|s| select(&entry_element, s)).transpose()
SelectOpt(doc, entry_element, field) ==
    IF ~IsSome(field) THEN Ok(None)
    ELSE MapSome(select(doc, entry_element, Unwrap(field)))

\* Option::into_iter().collect::<Vec<_>>()
OptToVec(o) == o

\* lines 106-116: the links of the entry
LinksOf(feed_cfg, link) ==
    IF IsSome(link) THEN OptToVec(Some(Link(NormalizeLink(feed_cfg.link, Unwrap(link)))))
    ELSE OptToVec(None)

\* lines 127-132: the authors of the entry
AuthorsOf(author) ==
    IF IsSome(author) THEN OptToVec(Some([name |-> Unwrap(author)]))
    ELSE OptToVec(None)

\* a plausible slip: published given the default updated has
EntryOf_PublishedDefault(title, links, author, summary, updated, published) ==
    [title |-> title,
     links |-> links,
     id |-> EntryId(title, links),
     authors |-> AuthorsOf(author),
     summary |-> summary,
     updated |-> IF IsSome(updated) THEN Unwrap(updated) ELSE <<>>,
     published |-> IF IsSome(published) THEN published ELSE Some(<<>>)]

\* the entry once every selector has resolved
EntryOf(title, links, author, summary, updated, published) ==
    [title |-> title,
     links |-> links,
     id |-> EntryId(title, links),
     authors |-> AuthorsOf(author),
     summary |-> summary,
     updated |-> IF IsSome(updated) THEN Unwrap(updated) ELSE <<>>,
     published |-> published]

\* the `?` of lines 99, 105, 126, 137, 143 and 149, in that order
FillFrom(feed_cfg, title, link, author, summary, updated, published) ==
    IF ~title.ok THEN title
    ELSE IF ~link.ok THEN link
    ELSE IF ~author.ok THEN author
    ELSE IF ~summary.ok THEN summary
    ELSE IF ~updated.ok THEN updated
    ELSE IF ~published.ok THEN published
    ELSE Ok(EntryOf(title.val, LinksOf(feed_cfg, link.val), author.val,
                    summary.val, updated.val, published.val))

fill_entry(doc, entry_element, feed_cfg) ==
    FillFrom(feed_cfg,
             select(doc, entry_element, feed_cfg.entry_title),
             SelectOpt(doc, entry_element, feed_cfg.entry_link),
             SelectOpt(doc, entry_element, feed_cfg.entry_author),
             SelectOpt(doc, entry_element, feed_cfg.entry_summary),
             SelectOpt(doc, entry_element, feed_cfg.entry_updated),
             SelectOpt(doc, entry_element, feed_cfg.entry_published))

(***************************************************************************)
(* src/main.rs: index, after the body has been read (lines 169-191)        *)
(***************************************************************************)
Response(code, msg, feed, selector) ==
    [code |-> code, msg |-> msg, feed |-> feed, selector |-> selector]

\* the HttpResponse actix renders for an Err(actix_web::Error) of the handler
ErrorResponse(e) == Response(e.code, e.msg, None, e.selector)

RECURSIVE CollectEntries(_, _, _, _)
\* a plausible slip: an entry that fails to build is skipped
PushOrFail_Skip(doc, feed_cfg, elements, entries, entry) ==
    IF ~entry.ok THEN CollectEntries(doc, feed_cfg, Tail(elements), entries)
    ELSE CollectEntries(doc, feed_cfg, Tail(elements), Append(entries, entry.val))

\* entries.push(entry), or the error of fill_entry(..)?
PushOrFail(doc, feed_cfg, elements, entries, entry) ==
    IF ~entry.ok THEN entry
    ELSE CollectEntries(doc, feed_cfg, Tail(elements), Append(entries, entry.val))

\* the for loop of lines 183-186: the first failing entry ends the request
CollectEntries(doc, feed_cfg, elements, entries) ==
    IF elements = <<>> THEN Ok(entries)
    ELSE PushOrFail(doc, feed_cfg, elements, entries,
                    fill_entry(doc, Head(elements), feed_cfg))

\* a plausible slip: the check for an empty result left out
EmptyCheck_Skip(entries) == Ok(entries)

\* lines 187-189
EmptyCheck(entries) ==
    IF entries = <<>>
    THEN Err([code |-> 500, msg |-> "entries selector", selector |-> None])
    ELSE Ok(entries)

\* lines 171-180 and 190: the feed around the entries
FeedOf(feed_cfg, info, now, entries) ==
    [title |-> feed_cfg.title,
     subtitle |-> feed_cfg.subtitle,
     updated |-> now,
     id |-> new_v5_urn(info),
     links |-> <<Link(feed_cfg.link)>>,
     entries |-> entries]

\* lines 191-192: Ok(HttpResponse::Ok()..body(feed)), or the error rendered by actix
Finish(feed_cfg, info, now, entries) ==
    IF entries.ok
    THEN Response(200, "application/xml", Some(FeedOf(feed_cfg, info, now, entries.val)), None)
    ELSE ErrorResponse(entries.err)

\* the entries of the feed: the loop, then the check that there are some
EntriesOf(collected) == IF collected.ok THEN EmptyCheck(collected.val) ELSE collected

\* the response of a request whose body arrived as `doc`
Assemble(feed_cfg, info, doc, now) ==
    Finish(feed_cfg, info, now,
           EntriesOf(CollectEntries(doc, feed_cfg, Select(doc, 0, feed_cfg.entries), <<>>)))

(***************************************************************************)
(* Configuration: Feed, init_config, get_config                            *)
(***************************************************************************)
Str_i == <<".", "i">>
Str_t == <<".", "t">>
Str_l == <<".", "l">>
Str_lh == <<".", "l", "|", "h">>
BaseLink == <<"h", "t", "t", "p", ":", "a">>

\* Option<SelectorEx> from Option<text>
DeserializeOpt(text) ==
    IF ~IsSome(text) THEN Ok(None)
    ELSE MapSome(visit_str_SelectorEx(Unwrap(text)))

\* the derived visitor of Feed: the first field that fails to parse is the error
FeedFrom(raw, entries, entry_title, entry_link, entry_author, entry_summary, entry_updated, entry_published) ==
    IF ~entries.ok THEN entries
    ELSE IF ~entry_title.ok THEN entry_title
    ELSE IF ~entry_link.ok THEN entry_link
    ELSE IF ~entry_author.ok THEN entry_author
    ELSE IF ~entry_summary.ok THEN entry_summary
    ELSE IF ~entry_updated.ok THEN entry_updated
    ELSE IF ~entry_published.ok THEN entry_published
    ELSE Ok([title |-> raw.title,
             subtitle |-> raw.subtitle,
             link |-> raw.link,
             entries |-> entries.val,
             entry_title |-> entry_title.val,
             entry_link |-> entry_link.val,
             entry_author |-> entry_author.val,
             entry_summary |-> entry_summary.val,
             entry_updated |-> entry_updated.val,
             entry_published |-> entry_published.val])

\* #[derive(Deserialize)] on Feed: every selector text goes through its visitor
DeserializeFeed(raw) ==
    FeedFrom(raw,
             visit_str_Selector(raw.entries),
             visit_str_SelectorEx(raw.entry_title),
             DeserializeOpt(raw.entry_link),
             DeserializeOpt(raw.entry_author),
             DeserializeOpt(raw.entry_summary),
             DeserializeOpt(raw.entry_updated),
             DeserializeOpt(raw.entry_published))

\* a configuration text for one service: which optional selectors it configures
RawFeed(entries, link, author, summary, updated, published) ==
    [title |-> <<"T">>, subtitle |-> None, link |-> BaseLink,
     entries |-> entries, entry_title |-> Str_t,
     entry_link |-> IF link THEN Some(Str_lh) ELSE None,
     entry_author |-> IF author THEN Some(Str_t) ELSE None,
     entry_summary |-> IF summary THEN Some(Str_l) ELSE None,
     entry_updated |-> IF updated THEN Some(Str_lh) ELSE None,
     entry_published |-> IF published THEN Some(Str_t) ELSE None]

\* the feed configurations the function specifications draw from
FeedCfgs ==
    {DeserializeFeed(RawFeed(Str_i, l, a, s, u, p)).val :
        l \in BOOLEAN, a \in BOOLEAN, s \in BOOLEAN, u \in BOOLEAN, p \in BOOLEAN}

\* the map, unless one of its values failed to deserialize
CollectMap(feeds) ==
    IF \E id \in DOMAIN feeds : ~feeds[id].ok THEN Err("selector")
    ELSE Ok([id \in DOMAIN feeds |-> feeds[id].val])

\* serde_json::from_reader into HashMap<String, Feed>
from_reader(json) ==
    IF ~IsSome(json) THEN Err("syntax")
    ELSE CollectMap([id \in DOMAIN Unwrap(json) |-> DeserializeFeed(Unwrap(json)[id])])

\* .context(format!("Failed to parse config file: {}", path))?
ParseContext(config) ==
    IF ~config.ok THEN Err("Failed to parse config file") ELSE Ok(config.val)

init_config(file) ==
    IF ~file.exists THEN Err("Failed to open config file")
    ELSE ParseContext(from_reader(file.json))

\* the services.json files main may be started on
RawMaps ==
    {[id \in {} |-> RawFeed(Str_i, FALSE, FALSE, FALSE, FALSE, FALSE)]}
    \cup {[id \in {"a"} |-> RawFeed(e, l, FALSE, FALSE, FALSE, FALSE)] :
             e \in {Str_i, <<>>}, l \in BOOLEAN}
ConfigFiles ==
    {[exists |-> FALSE, json |-> None], [exists |-> TRUE, json |-> None]}
    \cup {[exists |-> TRUE, json |-> Some(m)] : m \in RawMaps}
LoadableMaps == {r.val : r \in {q \in {init_config(f) : f \in ConfigFiles} : q.ok}}

\* a plausible slip: the error of init_config dropped instead of returned with `?`
AfterInitConfig_Ignore(r) == "bind"

\* main, line 209: init_config(&opt.config)?
AfterInitConfig(r) == IF r.ok THEN "bind" ELSE "failed"

\* unsafe { &*CONFIG }: reading through the null pointer is undefined behaviour,
\* any map may come out of it
get_config == IF CONFIG = None THEN LoadableMaps ELSE {Unwrap(CONFIG)}

\* a plausible slip: an unknown id served from some configured service
Lookup_Fallback(config, info) ==
    IF info \in DOMAIN config THEN Some(config[info])
    ELSE IF DOMAIN config # {} THEN Some(config[CHOOSE id \in DOMAIN config : TRUE])
    ELSE None

\* HashMap::get
Lookup(config, info) ==
    IF info \in DOMAIN config THEN Some(config[info]) ELSE None

(***************************************************************************)
(* The running process: main and the index handler's futures               *)
(***************************************************************************)
BodyLimit == 524288

Requests == {1, 2}
Paths == {"a", "b"}
Clock == {"t1", "t2"}
Statuses == {200, 404}
SendErrors == {"Timeout", "Connector", "Io"}

PageOpts == {Elem(<<"d">>, {<<"i">>}, {}), Elem(<<"d">>, {<<"t">>}, {}), Text(<<"x">>)}
\* the documents the configured link may serve
Pages == Grow({<<>>}, PageOpts, 0, PageNodes)
\* a response body: its length, whether the transfer broke, the document in it
Payloads ==
    [size : {BodyLimit, BodyLimit + 1}, broken : BOOLEAN, doc : Pages]

NoResponse == Response(0, "", None, None)
Idle ==
    [pc |-> "idle", info |-> "", feed_cfg |-> None, fetched |-> FALSE,
     status |-> 0, resp |-> NoResponse]

\* StatusCode::is_success
is_success(status) == status \in 200..299

\* <SendRequestError as ResponseError>::error_response
SendErrorResponse(kind) ==
    Response(IF kind = "Timeout" THEN 504 ELSE IF kind = "Connector" THEN 502 ELSE 500,
             "SendRequestError", None, None)

\* <PayloadError as ResponseError>::error_response
PayloadErrorResponse(kind) ==
    Response(IF kind = "Overflow" THEN 413 ELSE 400, "PayloadError", None, None)

\* resp.body().limit(524_288)
ReadBody(payload) ==
    IF payload.size > BodyLimit THEN Err("Overflow")
    ELSE IF payload.broken THEN Err("Incomplete")
    ELSE Ok(payload.doc)

\* lines 165-167: the branch on a non-success status is empty, the handler goes on
StatusCheck(status) == Ok(status)

\* init_config, lines 70-73: CONFIG is assigned only when the file loaded
Store(r) == IF r.ok THEN Some(r.val) ELSE CONFIG

\* main, line 209: CONFIG as init_config leaves it, and where main goes on
Started(r) ==
    /\ CONFIG' = Store(r)
    /\ mainPc' = AfterInitConfig(r)

\* main, lines 200-209
MainInitConfig ==
    /\ mainPc = "start"
    /\ \E file \in ConfigFiles : Started(init_config(file))
    /\ UNCHANGED <<accepted, req, fn, inp, out>>

\* main, lines 211-217: bind(..).unwrap() panics when the address cannot be bound
MainBind ==
    /\ mainPc = "bind"
    /\ \E bound \in BOOLEAN : mainPc' = IF bound THEN "serving" ELSE "panicked"
    /\ UNCHANGED <<CONFIG, accepted, req, fn, inp, out>>

\* index, lines 157-163 and 194-196: Either::B, the future whose fetch is started,
\* or Either::A, the 404
Dispatch(info, feed_cfg) ==
    IF IsSome(feed_cfg)
    THEN [Idle EXCEPT !.pc = "send", !.info = info, !.feed_cfg = feed_cfg, !.fetched = TRUE]
    ELSE [Idle EXCEPT !.pc = "done", !.info = info, !.resp = Response(404, "", None, None)]

\* index is called with the path of a request
Accept(r) ==
    /\ mainPc = "serving"
    /\ req[r].pc = "idle"
    /\ \E info \in Paths, config \in get_config :
          req' = [req EXCEPT ![r] = Dispatch(info, Lookup(config, info))]
    /\ accepted' = TRUE
    /\ UNCHANGED <<mainPc, CONFIG, fn, inp, out>>

\* the handler after lines 165-167
AfterStatus(me, status, checked) ==
    IF ~checked.ok
    THEN [me EXCEPT !.pc = "done", !.status = status, !.resp = ErrorResponse(checked.err)]
    ELSE [me EXCEPT !.pc = "body", !.status = status]

\* index, lines 159-167: the first await returns
SendCompletes(r) ==
    /\ req[r].pc = "send"
    /\ \E sent \in {Err(k) : k \in SendErrors} \cup {Ok(st) : st \in Statuses} :
          req' = [req EXCEPT ![r] =
              IF ~sent.ok
              THEN [@ EXCEPT !.pc = "done", !.resp = SendErrorResponse(sent.err)]
              ELSE AfterStatus(req[r], sent.val, StatusCheck(sent.val))]
    /\ UNCHANGED <<mainPc, CONFIG, accepted, fn, inp, out>>

\* line 168: await!(resp.body().limit(524_288))?, then the rest of the handler
Handle(feed_cfg, info, body, now) ==
    IF ~body.ok THEN PayloadErrorResponse(body.err)
    ELSE Assemble(feed_cfg, info, body.val, now)

\* index, lines 168-191: the second await returns and the handler runs to its end
BodyCompletes(r) ==
    /\ req[r].pc = "body"
    /\ \E payload \in Payloads, now \in Clock :
          req' = [req EXCEPT ![r] =
              [@ EXCEPT !.pc = "done",
                        !.resp = Handle(Unwrap(req[r].feed_cfg), req[r].info,
                                        ReadBody(payload), now)]]
    /\ UNCHANGED <<mainPc, CONFIG, accepted, fn, inp, out>>

\* the response is written and the future dropped; the worker takes the next request
Respond(r) ==
    /\ req[r].pc = "done"
    /\ req' = [req EXCEPT ![r] = Idle]
    /\ UNCHANGED <<mainPc, CONFIG, accepted, fn, inp, out>>

NoCall == [name |-> "none"]

Init ==
    /\ mainPc = "start"
    /\ CONFIG = None
    /\ accepted = FALSE
    /\ req = [r \in Requests |-> Idle]
    /\ fn = "main"
    /\ inp = NoCall
    /\ out = None

Next ==
    \/ MainInitConfig
    \/ MainBind
    \/ \E r \in Requests : Accept(r)
    \/ \E r \in Requests : SendCompletes(r)
    \/ \E r \in Requests : BodyCompletes(r)
    \/ \E r \in Requests : Respond(r)

Spec == Init /\ [][Next]_vars

(***************************************************************************)
(* The functions on their own: the arguments are drawn in the initial      *)
(* state and one step applies the function.                                *)
(***************************************************************************)
ServerAtRest ==
    /\ mainPc = "start"
    /\ CONFIG = None
    /\ accepted = FALSE
    /\ req = [r \in Requests |-> Idle]

Call(name, result) ==
    /\ fn = name
    /\ out = None
    /\ out' = Some(result)
    /\ UNCHANGED <<mainPc, CONFIG, accepted, req, fn, inp>>

\* ---- SelectorExVisitor::visit_str ----
TextChars == {"a", ".", "|"}

InitParse ==
    /\ ServerAtRest
    /\ fn = "visit_str"
    /\ inp \in [v : Strings(TextChars, MaxTextLen)]
    /\ out = None

CallParse == Call("visit_str", visit_str_SelectorEx(inp.v))

SpecParse == InitParse /\ [][CallParse]_vars

\* ---- select ----
FragRoot == Elem(<<"d">>, {<<"i">>}, {})
SelOpts ==
    {Elem(<<"d">>, {<<"t">>}, {}), Elem(<<"d">>, {<<"t">>}, {<<<<"h">>, <<"v">>>>}),
     Elem(<<"d">>, {<<"u">>}, {}), Text(<<"x">>), Text(<<"y">>)}
\* node 1 is the fragment; later nodes hang below it or beside it
SelDocs == Grow({<<FragRoot>>}, SelOpts, 0, SelNodes)
SelDescriptors == {visit_str_SelectorEx(Str_t).val, visit_str_SelectorEx(<<".", "t", "|", "h">>).val}

InitSelect ==
    /\ ServerAtRest
    /\ fn = "select"
    /\ inp \in [doc : SelDocs, entry_element : {1}, selector : SelDescriptors]
    /\ out = None

CallSelect == Call("select", select(inp.doc, inp.entry_element, inp.selector))

SpecSelect == InitSelect /\ [][CallSelect]_vars

\* ---- link normalisation ----
LinkChars == {"/", ".", "h", "t", "p", "x"}
Bases == {BaseLink, BaseLink \o <<"/">>}

InitLink ==
    /\ ServerAtRest
    /\ fn = "normalize"
    /\ inp \in [base : Bases, l : Strings(LinkChars, MaxLinkLen)]
    /\ out = None

CallLink == Call("normalize", NormalizeLink(inp.base, inp.l))

SpecLink == InitLink /\ [][CallLink]_vars

\* ---- identifier derivation ----
SeedChars == {"a", "\"", "\\"}
SeedTitles == Strings(SeedChars, MaxSeedLen)
SeedLinks == {<<>>} \cup {<<Link(h)>> : h \in Strings(SeedChars, MaxSeedLen)}

InitSeed ==
    /\ ServerAtRest
    /\ fn = "id"
    /\ inp \in [title : SeedTitles, links : SeedLinks]
    /\ out = None

CallSeed == Call("id", EntryId(inp.title, inp.links))

SpecSeed == InitSeed /\ [][CallSeed]_vars

\* ---- fill_entry ----
EntryOpts ==
    {Elem(<<"d">>, {<<"t">>}, {}), Elem(<<"d">>, {<<"l">>}, {}),
     Elem(<<"d">>, {<<"l">>}, {<<<<"h">>, <<"/", "x">>>>}), Text(<<"x">>)}
\* node 1 is the fragment, every other node lies below it
EntryDocs == Grow({<<FragRoot>>}, EntryOpts, 1, EntryNodes)

InitEntry ==
    /\ ServerAtRest
    /\ fn = "fill_entry"
    /\ inp \in [doc : EntryDocs, entry_element : {1}, feed_cfg : FeedCfgs]
    /\ out = None

CallEntry == Call("fill_entry", fill_entry(inp.doc, inp.entry_element, inp.feed_cfg))

SpecEntry == InitEntry /\ [][CallEntry]_vars

\* ---- feed assembly ----
DocOpts == EntryOpts \cup {FragRoot}
Docs == Grow({<<>>}, DocOpts, 0, DocNodes)
\* the configurations whose optional selectors aim at .l: link, summary, updated
AssembleCfgs == {c \in FeedCfgs : ~IsSome(c.entry_author) /\ ~IsSome(c.entry_published)}

InitAssemble ==
    /\ ServerAtRest
    /\ fn = "assemble"
    /\ inp \in [feed_cfg : AssembleCfgs, info : {"a"}, doc : Docs, now : {"t1"}]
    /\ out = None

CallAssemble == Call("assemble", Assemble(inp.feed_cfg, inp.info, inp.doc, inp.now))

SpecAssemble == InitAssemble /\ [][CallAssemble]_vars

(***************************************************************************)
(* Claims                                                                  *)
(***************************************************************************)
HasBar(v) == \E k \in 1..Len(v) : v[k] = "|"
\* the length of the longest prefix of v that holds no '|'
LeftLen(v) ==
    CHOOSE n \in 0..Len(v) :
        /\ \A j \in 1..n : v[j] # "|"
        /\ n = Len(v) \/ v[n + 1] = "|"
LeftPart(v) == SubSeq(v, 1, LeftLen(v))
RightPart(v) == SubSeq(v, LeftLen(v) + 2, Len(v))

\* C7: a selector text is cut at its first '|' only.  An empty left part fails
\* with "invalid length", a left part that is no selector fails with the
\* syntax error, and otherwise the descriptor holds the compiled left part and,
\* exactly when the text has a '|', everything after the first '|' as the
\* attribute name, verbatim.
C7_SelectorGrammar ==
    IsSome(out) =>
        LET r == Unwrap(out)
            left == LeftPart(inp.v)
        IN /\ left = <<>> => ~r.ok /\ r.err.kind = "invalid length"
           /\ left # <<>> /\ ~RawSelector_parse(left).ok =>
                  ~r.ok /\ r.err.kind = "custom" /\ r.err.text = left
           /\ left # <<>> /\ RawSelector_parse(left).ok =>
                  /\ r.ok
                  /\ r.val.selector = RawSelector_parse(left).val
                  /\ r.val.attr = IF HasBar(inp.v) THEN Some(RightPart(inp.v)) ELSE None

\* a text with a second '|' parsed: the attribute name holds the later '|'
C7_Witness ==
    /\ IsSome(out)
    /\ fn = "visit_str"
    /\ Unwrap(out).ok
    /\ IsSome(Unwrap(out).val.attr)
    /\ HasBar(Unwrap(Unwrap(out).val.attr))

\* the elements below the fragment that the descriptor's matcher matches
MatchSet(doc, frag, sx) ==
    {k \in 1..Len(doc) : IsDescendant(doc, frag, k) /\ Matches(doc[k], sx.selector)}
FirstMatch(doc, frag, sx) ==
    CHOOSE k \in MatchSet(doc, frag, sx) : \A j \in MatchSet(doc, frag, sx) : k <= j
\* the text nodes below element e
TextNodes(doc, e) == {k \in 1..Len(doc) : doc[k].kind = "text" /\ IsDescendant(doc, e, k)}
RECURSIVE JoinTexts(_, _)
\* the texts of the nodes `ks`, lowest index first
JoinTexts(doc, ks) ==
    IF ks = {} THEN <<>>
    ELSE LET k == CHOOSE k \in ks : \A j \in ks : k <= j
         IN doc[k].text \o JoinTexts(doc, ks \ {k})

\* C8: select uses the first element below the fragment, in document order,
\* that the matcher matches.  With no match it fails with an error naming the
\* descriptor.  With an attribute it returns that attribute's value on the
\* first match and fails when the first match lacks it, whatever later matches
\* hold.  Without an attribute it returns the text nodes below the first
\* match, concatenated in document order.
C8_SelectFirstMatch ==
    IsSome(out) =>
        LET r == Unwrap(out)
            sx == inp.selector
            ms == MatchSet(inp.doc, inp.entry_element, sx)
            m == FirstMatch(inp.doc, inp.entry_element, sx)
        IN /\ ms = {} => ~r.ok /\ r.err.code = 500 /\ r.err.selector = Some(sx)
           /\ ms # {} /\ IsSome(sx.attr) =>
                  IF \E a \in inp.doc[m].attrs : a[1] = Unwrap(sx.attr)
                  THEN r.ok /\ <<Unwrap(sx.attr), r.val>> \in inp.doc[m].attrs
                  ELSE ~r.ok /\ r.err.code = 500 /\ r.err.selector = Some(sx)
           /\ ms # {} /\ ~IsSome(sx.attr) =>
                  r.ok /\ r.val = JoinTexts(inp.doc, TextNodes(inp.doc, m))

\* the first match lacks the attribute, a later match has it, and select failed
C8_Witness ==
    /\ IsSome(out)
    /\ fn = "select"
    /\ IsSome(inp.selector.attr)
    /\ ~Unwrap(out).ok
    /\ \E k \in MatchSet(inp.doc, inp.entry_element, inp.selector) :
          /\ k # FirstMatch(inp.doc, inp.entry_element, inp.selector)
          /\ inp.doc[k].attrs # {}
    /\ inp.doc[FirstMatch(inp.doc, inp.entry_element, inp.selector)].attrs = {}

StartsWithSlashOrDot(l) == Len(l) >= 1 /\ (l[1] = "/" \/ l[1] = ".")
StartsWithHttp(l) ==
    Len(l) >= 4 /\ l[1] = "h" /\ l[2] = "t" /\ l[3] = "t" /\ l[4] = "p"

\* C4: the href of an entry's link is config.link + l when l starts with '/' or
\* '.', config.link + "/" + l when l starts with neither of those nor with
\* "http", and l itself when l starts with "http".
C4_LinkNormalisation ==
    IsSome(out) =>
        /\ StartsWithSlashOrDot(inp.l) => Unwrap(out) = inp.base \o inp.l
        /\ ~StartsWithSlashOrDot(inp.l) /\ ~StartsWithHttp(inp.l) =>
               Unwrap(out) = inp.base \o <<"/">> \o inp.l
        /\ StartsWithHttp(inp.l) => Unwrap(out) = inp.l

\* the empty value went through the middle case: the base and a '/'
C4_Witness ==
    /\ IsSome(out)
    /\ fn = "normalize"
    /\ inp.l = <<>>
    /\ Unwrap(out) = inp.base \o <<"/">>

\* C5: the identifier of an entry is a function of its title and links alone,
\* and of all of both: over the titles and link lists of the model, a pair
\* has the identifier this entry got exactly when it is this entry's pair.
C5_IdentifierInjective ==
    IsSome(out) =>
        \A t \in SeedTitles, ls \in SeedLinks :
            (EntryId(t, ls) = Unwrap(out)) <=> (t = inp.title /\ ls = inp.links)

\* an entry whose href needs escaping, and a second pair that spells the same
\* characters with the title and the href cut elsewhere
C5_Witness ==
    /\ IsSome(out)
    /\ fn = "id"
    /\ inp.links # <<>>
    /\ inp.title = <<"a">>
    /\ inp.links[1].href = <<"\"", "a">>

\* the descriptor resolves on the fragment: its first match exists and, when an
\* attribute is asked for, carries it
Resolves(doc, frag, sx) ==
    /\ MatchSet(doc, frag, sx) # {}
    /\ IsSome(sx.attr) =>
           \E a \in doc[FirstMatch(doc, frag, sx)].attrs : a[1] = Unwrap(sx.attr)
\* what a resolving descriptor resolves to
Resolved(doc, frag, sx) ==
    IF IsSome(sx.attr)
    THEN (CHOOSE a \in doc[FirstMatch(doc, frag, sx)].attrs : a[1] = Unwrap(sx.attr))[2]
    ELSE JoinTexts(doc, TextNodes(doc, FirstMatch(doc, frag, sx)))

\* C9: a built entry has one link exactly when entry_link is configured and
\* none otherwise, one author exactly when entry_author is configured, a
\* summary and a published value exactly when their selectors are configured,
\* and an updated value always: the resolved one when entry_updated is
\* configured, the empty string when it is not.
C9_OptionalFields ==
    IsSome(out) /\ Unwrap(out).ok =>
        LET e == Unwrap(out).val
            c == inp.feed_cfg
        IN /\ Len(e.links) = IF IsSome(c.entry_link) THEN 1 ELSE 0
           /\ Len(e.authors) = IF IsSome(c.entry_author) THEN 1 ELSE 0
           /\ IsSome(e.summary) <=> IsSome(c.entry_summary)
           /\ IsSome(e.published) <=> IsSome(c.entry_published)
           /\ e.updated = IF IsSome(c.entry_updated)
                          THEN Resolved(inp.doc, inp.entry_element, Unwrap(c.entry_updated))
                          ELSE <<>>

\* an entry built with a link and a summary configured and neither updated nor
\* published: updated is the empty string, published is absent
C9_Witness ==
    /\ IsSome(out)
    /\ fn = "fill_entry"
    /\ Unwrap(out).ok
    /\ IsSome(inp.feed_cfg.entry_link)
    /\ IsSome(inp.feed_cfg.entry_summary)
    /\ ~IsSome(inp.feed_cfg.entry_updated)
    /\ ~IsSome(inp.feed_cfg.entry_published)
    /\ Unwrap(out).val.updated = <<>>
    /\ Unwrap(out).val.published = None

\* the entry fragments of a document
Fragments(doc, c) == {k \in 1..Len(doc) : Matches(doc[k], c.entries)}
\* the selectors the configuration configures for an entry
Configured(c) ==
    {c.entry_title}
    \cup {Unwrap(f) : f \in {g \in {c.entry_link, c.entry_author, c.entry_summary,
                                    c.entry_updated, c.entry_published} : IsSome(g)}}

\* C2: when the entries selector matches nothing the response is the 500 of
\* "no entries matched", and a 200 response carries a feed with at least one
\* entry.
C2_NoEmptyFeed ==
    IsSome(out) =>
        LET r == Unwrap(out)
        IN /\ Fragments(inp.doc, inp.feed_cfg) = {} =>
                  r.code = 500 /\ r.msg = "entries selector" /\ r.feed = None
           /\ r.code = 200 => IsSome(r.feed) /\ Len(Unwrap(r.feed).entries) >= 1

\* a document with elements but no entry fragment was answered with that error
C2_Witness ==
    /\ IsSome(out)
    /\ fn = "assemble"
    /\ Len(inp.doc) = DocNodes
    /\ Fragments(inp.doc, inp.feed_cfg) = {}
    /\ Unwrap(out).msg = "entries selector"

\* C3: when a configured entry selector fails to resolve on some matched
\* fragment the response is an error without a feed; a 200 response has one
\* entry per matched fragment, each holding what its selectors resolved to.
C3_NoPartialFeed ==
    IsSome(out) =>
        LET r == Unwrap(out)
            c == inp.feed_cfg
            frags == Fragments(inp.doc, c)
        IN /\ (\E k \in frags, sx \in Configured(c) : ~Resolves(inp.doc, k, sx)) =>
                  r.code = 500 /\ r.msg = "selector" /\ r.feed = None
           /\ r.code = 200 =>
                  /\ \A k \in frags, sx \in Configured(c) : Resolves(inp.doc, k, sx)
                  /\ Len(Unwrap(r.feed).entries) = Cardinality(frags)
                  /\ \A n \in 1..Len(Unwrap(r.feed).entries) :
                         \E k \in frags :
                             /\ Cardinality({j \in frags : j <= k}) = n
                             /\ Unwrap(r.feed).entries[n].title = Resolved(inp.doc, k, c.entry_title)

\* two fragments, the first resolves every selector, the second does not, and
\* the request failed
C3_Witness ==
    /\ IsSome(out)
    /\ fn = "assemble"
    /\ Unwrap(out).code = 500
    /\ \E k1, k2 \in Fragments(inp.doc, inp.feed_cfg) :
          /\ k1 < k2
          /\ \A sx \in Configured(inp.feed_cfg) : Resolves(inp.doc, k1, sx)
          /\ \E sx \in Configured(inp.feed_cfg) : ~Resolves(inp.doc, k2, sx)

\* C1: a request whose fetch came back with a status that is no success fails
\* with the 500 of a fetch failure; its handler never goes on to read the body
\* and to answer from it.
C1_NonSuccessFails ==
    \A r \in Requests :
        req[r].status # 0 /\ ~is_success(req[r].status) =>
            /\ req[r].pc # "body"
            /\ req[r].pc = "done" => req[r].resp.code = 500

\* what the code does instead: a 200 with a feed built from a 404's body
C1_FeedFromNonSuccess ==
    \E r \in Requests :
        /\ req[r].pc = "done"
        /\ ~is_success(req[r].status)
        /\ req[r].resp.code = 200
        /\ IsSome(req[r].resp.feed)

\* C6: a request for an id that is no key of the configuration map is answered
\* 404 and no fetch is started for it; a fetch is started only for an id found
\* in the map.
C6_UnknownIdNotFetched ==
    \A r \in Requests :
        req[r].pc # "idle" =>
            /\ CONFIG # None
            /\ req[r].info \notin DOMAIN Unwrap(CONFIG) =>
                   /\ req[r].pc = "done"
                   /\ req[r].resp.code = 404
                   /\ ~req[r].fetched
            /\ req[r].fetched => req[r].info \in DOMAIN Unwrap(CONFIG)

\* one request answered 404 without a fetch while the fetch of another is under way
C6_Witness ==
    \E r1, r2 \in Requests :
        /\ req[r1].pc = "done" /\ req[r1].resp.code = 404 /\ ~req[r1].fetched
        /\ req[r2].pc = "send" /\ req[r2].fetched
        /\ req[r1].info \notin DOMAIN Unwrap(CONFIG)

\* C10: CONFIG is written once, by init_config at startup and before any
\* request is accepted; a handler runs only while CONFIG is set and never
\* changes it; when loading the configuration fails the process ends without
\* having served a request.
C10_ConfigWrittenOnce ==
    /\ [](/\ (accepted \/ \E r \in Requests : req[r].pc # "idle") =>
                 CONFIG # None /\ mainPc = "serving"
          /\ mainPc = "failed" => CONFIG = None /\ ~accepted)
    /\ [][/\ CONFIG' # CONFIG =>
                 CONFIG = None /\ mainPc = "start" /\ ~accepted /\ req' = req
          /\ req' # req => CONFIG' = CONFIG /\ CONFIG # None
          /\ mainPc = "failed" => mainPc' = "failed" /\ accepted' = accepted]_vars

\* two handlers between their awaits at once, both reading the same CONFIG
C10_Witness ==
    /\ CONFIG # None
    /\ req[1].pc = "send"
    /\ req[2].pc = "body"

====
